---- MODULE Spec2Model ----
(***************************************************************************)
(* Model of manytomany/__init__.py: group_mentors (mentor clustering) and  *)
(* match_mentees_to_mentor_groups (round-by-round Hungarian assignment of  *)
(* mentees to mentor groups, followed by the two result views).            *)
(*                                                                         *)
(* Positions (iloc, solver row/column indices, cluster member indices) are *)
(* 0-based as in the source; TLA+ sequences are 1-based, so Iloc(s, i)     *)
(* reads s[i + 1].                                                         *)
(***************************************************************************)
EXTENDS Integers, Sequences, FiniteSets, TLC

VARIABLES
    mentors,                \* mentor table: sequence of records [name, attr]
    mentees,                \* mentee table: sequence of records [name, attr]
    mentor_groups,          \* dict in insertion order: sequence of [id, members]
    mentees_per_mentor,     \* number of rounds requested
    similarity_func,        \* the group-to-mentee comparison function (by name)
    similarity_matrix,      \* [index, columns, at]: group ids x mentee keys
    assignments,            \* group id -> sequence of one cell per round
    mentees_pool,           \* index of the remaining-mentee pool (mentee keys)
    round,                  \* loop variable of the assignment loop
    assignments_by_mentor,  \* mentor key -> row of round cells
    assignments_by_mentee,  \* mentee key -> row of mentor slots
    returned,               \* what the call returned: NoViews or the two views
    pc,                     \* position in match_mentees_to_mentor_groups
    mentors_per_mentee,     \* group_mentors: requested group size
    mentor_similarity_func, \* group_mentors: the mentor-pair comparison function
    mentor_similarity,      \* group_mentors: the mentor x mentor matrix
    n_clusters,             \* group_mentors: the cluster count
    km,                     \* group_mentors: the KMedoids object, NoSolver before
    returned_groups,        \* group_mentors: the returned mapping
    gpc                     \* position in group_mentors

avars == <<mentors, mentees, mentor_groups, mentees_per_mentor, similarity_func,
           similarity_matrix, assignments, mentees_pool, round,
           assignments_by_mentor, assignments_by_mentee, returned, pc>>

gvars == <<mentors_per_mentee, mentor_similarity_func, mentor_similarity,
           n_clusters, km, returned_groups, gpc>>

vars == <<avars, gvars>>

-----------------------------------------------------------------------------
(* Bounds of the model *)
MaxMentors == 3
MaxMentees == 4
MaxRounds == 2
MaxGroups == 2
MaxGroupSize == 3

(* np.nan: the absent marker of every table cell that was never written *)
NaN == -1
(* np.inf *)
Inf == 1000

NoViews == <<>>
NoSolver == <<>>
NoGroups == <<>>
EmptyMatrix == [index |-> <<>>, columns |-> <<>>, at |-> <<>>]

-----------------------------------------------------------------------------
(* Generic helpers *)
Range(s) == {s[i] : i \in DOMAIN s}

Iloc(s, i) == s[i + 1]

Abs(x) == IF x < 0 THEN -x ELSE x

RECURSIVE SumSeq(_)
SumSeq(s) == IF s = <<>> THEN 0 ELSE Head(s) + SumSeq(Tail(s))

Max(S) == CHOOSE x \in S : \A y \in S : y <= x

\* the 0-based positions of a set, in increasing order
RECURSIVE SortedSeq(_)
SortedSeq(S) ==
    IF S = {} THEN <<>>
    ELSE LET m == CHOOSE x \in S : \A y \in S : x <= y
         IN <<m>> \o SortedSeq(S \ {m})

\* 0-based position of key k in the sequence s of distinct keys
PosOf(s, k) == (CHOOSE i \in DOMAIN s : s[i] = k) - 1

-----------------------------------------------------------------------------
(* Record tables *)
MentorName(i) == 10 + i
MenteeName(j) == 20 + j

MentorTable(n, stride) ==
    [i \in 1..n |-> [name |-> MentorName(i - 1), attr |-> ((i - 1) * stride) % 3]]

MenteeTable(n) ==
    [j \in 1..n |-> [name |-> MenteeName(j - 1), attr |-> (j - 1) % 3]]

Index(table) == [i \in DOMAIN table |-> table[i].name]

\* mentor groups: disjoint, non-empty lists of mentor positions; c maps each
\* position to a group number (0: in no group); ids gives the dict's key order
GroupsOf(c, ids) ==
    [g \in DOMAIN ids |->
        [id |-> ids[g],
         members |-> SortedSeq({p \in DOMAIN c : c[p] = ids[g] + 1})]]

Keys(groups) == [g \in DOMAIN groups |-> groups[g].id]

Members(groups, id) == (CHOOSE g \in Range(groups) : g.id = id).members

\* the comparison functions handed to match_mentees_to_mentor_groups
SimilarityFuncs == {"constant", "absdiff"}

ApplyGroupSimilarity(f, mentor_records, mentee) ==
    IF f = "constant" THEN 0
    ELSE SumSeq([i \in DOMAIN mentor_records |->
                    Abs(mentor_records[i].attr - mentee.attr)])

-----------------------------------------------------------------------------
(* Similarity matrix of match_mentees_to_mentor_groups, lines 56-59 *)
GroupSimilarityMatrix(ms, es, groups, f) ==
    [index   |-> Keys(groups),
     columns |-> Index(es),
     at      |-> [id \in Range(Keys(groups)) |->
                    [k \in Range(Index(es)) |->
                        LET e == CHOOSE x \in Range(es) : x.name = k
                            grp == Members(groups, id)
                        IN ApplyGroupSimilarity(f,
                               [i \in DOMAIN grp |-> Iloc(ms, grp[i])], e)]]]

\* similarity_matrix.values: the cells by 1-based (row, column) position
Values(sm) ==
    [i \in DOMAIN sm.index |->
        [j \in DOMAIN sm.columns |-> sm.at[sm.index[i]][sm.columns[j]]]]

-----------------------------------------------------------------------------
(* Munkres().compute, line 66: a minimum-cost matching of the smaller       *)
(* dimension, as a set of 0-based (row, column) pairs.  With more rows than *)
(* columns the library either raises while padding the array or returns one *)
(* pair per column only.                                                    *)
Injections(A, B) ==
    {f \in [1..A -> 1..B] : \A x, y \in 1..A : x # y => f[x] # f[y]}

RowCost(values, f) == SumSeq([i \in DOMAIN f |-> values[i][f[i]]])
ColCost(values, f) == SumSeq([j \in DOMAIN f |-> values[f[j]][j]])

Min(S) == CHOOSE x \in S : \A y \in S : x <= y

MunkresCompute(values, R, C) ==
    IF R <= C
    THEN LET least == Min({RowCost(values, h) : h \in Injections(R, C)})
             best == {f \in Injections(R, C) : RowCost(values, f) = least}
         IN {[raised |-> FALSE, pairs |-> {<<i - 1, f[i] - 1>> : i \in 1..R}]
                : f \in best}
    ELSE LET least == Min({ColCost(values, h) : h \in Injections(C, R)})
             best == {f \in Injections(C, R) : ColCost(values, f) = least}
         IN {[raised |-> TRUE, pairs |-> {}]} \cup
            {[raised |-> FALSE, pairs |-> {<<f[j] - 1, j - 1>> : j \in 1..C}]
                : f \in best}

-----------------------------------------------------------------------------
(* One round of the assignment loop, lines 66-74 *)

\* line 68: mentees_pool.index[mentee_id_index] raises IndexError out of range
PoolIndexRaises(pool, pairs) == \E p \in pairs : p[2] >= Len(pool)

\* lines 67-71: write the matched mentee of every pair into column r.  The
\* table has a single object-typed block, so assignments.loc[group] is a view
\* of the row and the write through it reaches the table.
AssignRound(asg, keys, pool, pairs, r) ==
    [id \in DOMAIN asg |->
        LET i == PosOf(keys, id)
        IN IF \E p \in pairs : p[1] = i
           THEN [asg[id] EXCEPT ![r + 1] =
                    Iloc(pool, (CHOOSE p \in pairs : p[1] = i)[2])]
           ELSE asg[id]]

\* assignments[f'assigned_{round}']: column r, in index order
Column(asg, keys, r) == [g \in DOMAIN keys |-> asg[keys[g]][r + 1]]

\* variant: drop(..., errors='ignore'), a missing label is skipped silently
DropRaises_Ignore(axis, labels) == FALSE

\* DataFrame.drop raises KeyError when a label is not in the axis
DropRaises(axis, labels) == \E l \in Range(labels) : l \notin Range(axis)

\* variant: the result of drop is discarded, the axis keeps every label
Drop_KeepsAxis(axis, labels) == axis

Drop(axis, labels) == SelectSeq(axis, LAMBDA k : k \notin Range(labels))

\* line 73: similarity_matrix.drop(labels, axis=1)
DropColumns(sm, labels) ==
    [index   |-> sm.index,
     columns |-> Drop(sm.columns, labels),
     at      |-> [id \in DOMAIN sm.at |->
                    [k \in Range(Drop(sm.columns, labels)) |-> sm.at[id][k]]]]

\* variant: line 74 left out, the pool keeps the matched mentees
DropPool_Keeps(pool, labels) == pool

\* line 74: mentees_pool.drop(labels)
DropPool(pool, labels) == Drop(pool, labels)

-----------------------------------------------------------------------------
(* View projection, lines 76-99 *)

\* variant: .loc[mentor] instead of .iloc[mentor]: the member index is taken
\* as a row label, and a label that is not in the index adds a row
RECURSIVE CopyRowToMentors_ByLabel(_, _, _, _)
CopyRowToMentors_ByLabel(view, midx, members, row) ==
    IF members = <<>> THEN view
    ELSE CopyRowToMentors_ByLabel(
            [k \in DOMAIN view \cup {Head(members)} |->
                IF k = Head(members) THEN row ELSE view[k]],
            midx, Tail(members), row)

\* lines 84-85: every mentor of the group gets the group's row, by position;
\* iloc sets the row's values in order, without aligning the column labels
RECURSIVE CopyRowToMentors(_, _, _, _)
CopyRowToMentors(view, midx, members, row) ==
    IF members = <<>> THEN view
    ELSE CopyRowToMentors(
            [view EXCEPT ![Iloc(midx, Head(members))] = row],
            midx, Tail(members), row)

\* lines 81-85: assignments.iterrows(), in index order
RECURSIVE ByMentorRows(_, _, _, _, _)
ByMentorRows(view, midx, groups, asg, g) ==
    IF g > Len(groups) THEN view
    ELSE ByMentorRows(
            CopyRowToMentors(view, midx, groups[g].members, asg[groups[g].id]),
            midx, groups, asg, g + 1)

\* lines 77-85
ByMentorView(ms, groups, asg, rounds) ==
    ByMentorRows([k \in Range(Index(ms)) |-> [c \in 1..rounds |-> NaN]],
                 Index(ms), groups, asg, 1)

\* line 88
MaxMentorGroupSize(groups) == Max({Len(g.members) : g \in Range(groups)})

\* variant: lines 97-98 left out, the names are not padded
PaddedNames_NoPad(ms, members, width) ==
    [i \in DOMAIN members |-> Iloc(ms, members[i]).name]

\* lines 94-98: the group's mentor names padded with NaN up to width
PaddedNames(ms, members, width) ==
    [i \in DOMAIN members |-> Iloc(ms, members[i]).name] \o
    [i \in 1..(width - Len(members)) |-> NaN]

\* line 99: .loc[key] = row (a key that is not in the index adds a row)
SetRow(view, key, row) ==
    [k \in DOMAIN view \cup {key} |-> IF k = key THEN row ELSE view[k]]

\* lines 92-99: columns (rounds) outermost, then the groups in index order
RECURSIVE ByMenteeCells(_, _, _, _, _, _, _)
ByMenteeCells(view, ms, groups, asg, rounds, r, g) ==
    IF r >= rounds THEN view
    ELSE IF g > Len(groups)
         THEN ByMenteeCells(view, ms, groups, asg, rounds, r + 1, 1)
         ELSE ByMenteeCells(
                SetRow(view, asg[groups[g].id][r + 1],
                       PaddedNames(ms, groups[g].members,
                                   MaxMentorGroupSize(groups))),
                ms, groups, asg, rounds, r, g + 1)

\* lines 88-99
ByMenteeView(ms, es, groups, asg, rounds) ==
    ByMenteeCells(
        [k \in Range(Index(es)) |->
            [c \in 1..MaxMentorGroupSize(groups) |-> NaN]],
        ms, groups, asg, rounds, 0, 1)

-----------------------------------------------------------------------------
(* match_mentees_to_mentor_groups as a state machine *)

GroupMaps(n) ==
    {c \in [0..(n - 1) -> 0..MaxGroups] :
        /\ \E p \in DOMAIN c : c[p] # 0
        /\ \A k \in 1..MaxGroups :
              (\E p \in DOMAIN c : c[p] = k) =>
                  \A h \in 1..k : \E q \in DOMAIN c : c[q] = h}

NumGroupsOf(c) == Max({c[p] : p \in DOMAIN c})

KeyOrders(k) == {[g \in 1..k |-> g - 1], [g \in 1..k |-> k - g]}

Init ==
    /\ \E n \in 1..MaxMentors, m \in 0..MaxMentees :
          /\ mentors = MentorTable(n, 1)
          /\ mentees = MenteeTable(m)
          /\ \E c \in GroupMaps(n) :
                \E ids \in KeyOrders(NumGroupsOf(c)) :
                    mentor_groups = GroupsOf(c, ids)
    /\ mentees_per_mentor \in -1..MaxRounds
    /\ similarity_func \in SimilarityFuncs
    /\ similarity_matrix = EmptyMatrix
    /\ assignments = <<>>
    /\ mentees_pool = <<>>
    /\ round = 0
    /\ assignments_by_mentor = <<>>
    /\ assignments_by_mentee = <<>>
    /\ returned = NoViews
    /\ pc = "start"
    /\ mentors_per_mentee = 1
    /\ mentor_similarity_func = [kind |-> "constant", self |-> 0]
    /\ mentor_similarity = EmptyMatrix
    /\ n_clusters = 0
    /\ km = NoSolver
    /\ returned_groups = NoGroups
    /\ gpc = "idle"

inputs == <<mentors, mentees, mentor_groups, mentees_per_mentor, similarity_func,
            gvars>>

\* range(mentees_per_mentor) is empty for a count <= 0
NumRounds(n) == IF n > 0 THEN n ELSE 0

\* lines 56-64
BuildSimilarityMatrix ==
    /\ pc = "start"
    /\ similarity_matrix' =
          GroupSimilarityMatrix(mentors, mentees, mentor_groups, similarity_func)
    /\ assignments' =
          [id \in Range(Keys(mentor_groups)) |->
              [c \in 1..NumRounds(mentees_per_mentor) |-> NaN]]
    /\ mentees_pool' = Index(mentees)
    /\ round' = 0
    /\ pc' = "loop"
    /\ UNCHANGED <<inputs, assignments_by_mentor, assignments_by_mentee, returned>>

\* lines 65-74: one iteration of the loop
Round ==
    /\ pc = "loop"
    /\ round < mentees_per_mentor
    /\ \E out \in MunkresCompute(Values(similarity_matrix),
                                 Len(similarity_matrix.index),
                                 Len(similarity_matrix.columns)) :
          IF out.raised \/ PoolIndexRaises(mentees_pool, out.pairs)
          THEN /\ pc' = "error"
               /\ UNCHANGED <<similarity_matrix, assignments, mentees_pool, round>>
          ELSE LET asg == AssignRound(assignments, Keys(mentor_groups),
                                      mentees_pool, out.pairs, round)
                   labels == Column(asg, Keys(mentor_groups), round)
               IN /\ assignments' = asg
                  /\ IF \/ DropRaises(similarity_matrix.columns, labels)
                        \/ DropRaises(mentees_pool, labels)
                     THEN /\ pc' = "error"
                          /\ UNCHANGED <<similarity_matrix, mentees_pool, round>>
                     ELSE /\ similarity_matrix' =
                                DropColumns(similarity_matrix, labels)
                          /\ mentees_pool' = DropPool(mentees_pool, labels)
                          /\ round' = round + 1
                          /\ pc' = "loop"
    /\ UNCHANGED <<inputs, assignments_by_mentor, assignments_by_mentee, returned>>

\* lines 76-85, once the loop is exhausted
ProjectByMentor ==
    /\ pc = "loop"
    /\ round >= mentees_per_mentor
    /\ assignments_by_mentor' =
          ByMentorView(mentors, mentor_groups, assignments,
                       NumRounds(mentees_per_mentor))
    /\ pc' = "by_mentee"
    /\ UNCHANGED <<inputs, similarity_matrix, assignments, mentees_pool, round,
                   assignments_by_mentee, returned>>

\* lines 87-99
ProjectByMentee ==
    /\ pc = "by_mentee"
    /\ assignments_by_mentee' =
          ByMenteeView(mentors, mentees, mentor_groups, assignments,
                       NumRounds(mentees_per_mentor))
    /\ pc' = "return"
    /\ UNCHANGED <<inputs, similarity_matrix, assignments, mentees_pool, round,
                   assignments_by_mentor, returned>>

\* line 101
Return ==
    /\ pc = "return"
    /\ returned' = <<assignments_by_mentor, assignments_by_mentee>>
    /\ pc' = "done"
    /\ UNCHANGED <<inputs, similarity_matrix, assignments, mentees_pool, round,
                   assignments_by_mentor, assignments_by_mentee>>

Next ==
    \/ BuildSimilarityMatrix
    \/ Round
    \/ ProjectByMentor
    \/ ProjectByMentee
    \/ Return

Spec == Init /\ [][Next]_vars

-----------------------------------------------------------------------------
(* Properties of match_mentees_to_mentor_groups (checked under Spec) *)

MenteeKeys == Range(Index(mentees))

\* the (group id, round) cells of the assignment table
Cells == {<<id, r>> : id \in DOMAIN assignments,
                      r \in 1..NumRounds(mentees_per_mentor)}

CellsOf(e) == {c \in Cells : assignments[c[1]][c[2]] = e}

RowIsFull(id) ==
    /\ Len(assignments[id]) = mentees_per_mentor
    /\ \A r \in 1..mentees_per_mentor : assignments[id][r] \in MenteeKeys
    /\ \A r1, r2 \in 1..mentees_per_mentor :
          r1 # r2 => assignments[id][r1] # assignments[id][r2]

\* C1: when the call completes with rounds >= 1, every group's row holds
\* exactly `rounds` distinct mentee keys, none absent, and no mentee key is in
\* more than one (group, round) cell.
C1_RowsFullAndDisjoint ==
    (pc = "done" /\ mentees_per_mentor >= 1) =>
        /\ \A id \in DOMAIN assignments : RowIsFull(id)
        /\ \A c1, c2 \in Cells :
              c1 # c2 => assignments[c1[1]][c1[2]] # assignments[c2[1]][c2[2]]

C1_Witness ==
    /\ pc = "done"
    /\ mentees_per_mentor = 2
    /\ Len(mentor_groups) = 2
    /\ Len(mentees) >= 4

\* C2: a round that starts with fewer remaining mentees than groups ends the
\* call in an error with no views returned, and a call that returns never
\* leaves an absent cell in a group's row.
C2_ShortPoolFails ==
    [][ /\ ( /\ pc = "loop"
             /\ round < mentees_per_mentor
             /\ Len(mentees_pool) < Len(mentor_groups) )
           => (pc' = "error" /\ returned' = NoViews)
        /\ (pc' = "done" /\ mentees_per_mentor >= 1)
           => \A id \in DOMAIN assignments' :
                 /\ Len(assignments'[id]) = mentees_per_mentor
                 /\ \A r \in 1..mentees_per_mentor : assignments'[id][r] # NaN
      ]_vars

C2_Witness ==
    /\ pc = "error"
    /\ round = 1
    /\ mentees_per_mentor = 2
    /\ Len(mentor_groups) = 2
    /\ Len(mentees) = 3
    /\ returned = NoViews

\* C3 as stated: after the assignment completes every mentee key of the table
\* is in exactly one cell of the assignment table.
C3_EveryMenteeAssignedOnce ==
    (pc = "done" /\ mentees_per_mentor >= 1) =>
        \A e \in MenteeKeys : Cardinality(CellsOf(e)) = 1

\* C3 amended: every mentee key is in at most one cell of the assignment
\* table, during every round and at the end; when the call completes exactly
\* groups x rounds mentee keys are in a cell and the others are in none.
C3_EveryMenteeAssignedAtMostOnce ==
    /\ pc \in {"loop", "by_mentee", "return", "done", "error"} =>
          \A e \in MenteeKeys : Cardinality(CellsOf(e)) <= 1
    /\ pc = "done" =>
          Cardinality({e \in MenteeKeys : CellsOf(e) # {}}) =
              Len(mentor_groups) * NumRounds(mentees_per_mentor)

C3_Witness ==
    /\ pc = "done"
    /\ mentees_per_mentor = 2
    /\ Len(mentor_groups) = 1
    /\ Len(mentees) = 4
    /\ \E e \in MenteeKeys : CellsOf(e) = {}

\* positions of the mentors that are in some group
GroupedPositions == UNION {Range(g.members) : g \in Range(mentor_groups)}

\* C4: in the returned by-mentor view the row of every mentor listed in a
\* group equals that group's assignment row, and the row of a mentor in no
\* group holds only the absent marker.
C4_ByMentorRows ==
    pc = "done" =>
        /\ \A g \in Range(mentor_groups) : \A p \in Range(g.members) :
              returned[1][mentors[p + 1].name] = assignments[g.id]
        /\ \A p \in 0..(Len(mentors) - 1) :
              p \notin GroupedPositions =>
                  \A r \in 1..NumRounds(mentees_per_mentor) :
                      returned[1][mentors[p + 1].name][r] = NaN

C4_Witness ==
    /\ pc = "done"
    /\ mentees_per_mentor = 2
    /\ \E g \in Range(mentor_groups) : Len(g.members) = 2
    /\ \E p \in 0..(Len(mentors) - 1) : p \notin GroupedPositions

\* C5: every row of the returned by-mentee view has max_group_size columns,
\* and the row of a mentee assigned to group g is g's mentor keys in order
\* followed by absent markers.
C5_ByMenteeRows ==
    pc = "done" =>
        /\ \A e \in DOMAIN returned[2] :
              Len(returned[2][e]) = MaxMentorGroupSize(mentor_groups)
        /\ \A g \in Range(mentor_groups) :
              \A r \in 1..NumRounds(mentees_per_mentor) :
                 LET row == returned[2][assignments[g.id][r]]
                 IN \A i \in 1..MaxMentorGroupSize(mentor_groups) :
                       row[i] = IF i <= Len(g.members)
                                THEN mentors[g.members[i] + 1].name
                                ELSE NaN

C5_Witness ==
    /\ pc = "done"
    /\ mentees_per_mentor >= 1
    /\ \E g1, g2 \in Range(mentor_groups) :
          /\ Len(g1.members) = 2
          /\ Len(g2.members) = 1
          /\ returned[2][assignments[g2.id][1]][2] = NaN

\* C6: a call with rounds <= 0 fails and returns no views.
C6_NonPositiveRoundsFail ==
    mentees_per_mentor <= 0 => (pc # "done" /\ returned = NoViews)

\* assigned mentee keys so far
AssignedKeys == {e \in MenteeKeys : CellsOf(e) # {}}

\* C10: at the start of every round the similarity matrix has the group ids
\* as rows and exactly the remaining pool's keys as columns, in the same
\* order; the pool is the mentee table's index without the mentees matched in
\* earlier rounds, groups x round of them.
C10_ColumnsFollowPool ==
    pc = "loop" =>
        /\ similarity_matrix.index = Keys(mentor_groups)
        /\ similarity_matrix.columns = mentees_pool
        /\ mentees_pool =
              SelectSeq(Index(mentees), LAMBDA k : k \notin AssignedKeys)
        /\ Cardinality(AssignedKeys) = Len(mentor_groups) * round

C10_Witness ==
    /\ pc = "loop"
    /\ round = 1
    /\ mentees_per_mentor = 2
    /\ Len(mentor_groups) = 2
    /\ Len(mentees_pool) = 2
    /\ mentees_pool # SubSeq(Index(mentees), 3, 4)

-----------------------------------------------------------------------------
(* group_mentors, lines 20-33 *)

\* the comparison functions handed to group_mentors: a value for every pair of
\* mentor records, self-pairs included (self is what a self-pair adds)
MentorSimilarityFuncs == [kind : {"constant", "absdiff"}, self : 0..2]

ApplyMentorSimilarity(f, a, b) ==
    (IF f.kind = "constant" THEN 1 ELSE Abs(a.attr - b.attr))
        + (IF a.name = b.name THEN f.self ELSE 0)

\* variant: lines 23-25 left out, self-pairs go through similarity_func
MentorSimilarityMatrix_NoDiagonal(ms, f) ==
    [index   |-> Index(ms),
     columns |-> Index(ms),
     at      |-> [id1 \in Range(Index(ms)) |->
                    [id2 \in Range(Index(ms)) |->
                        ApplyMentorSimilarity(f,
                            CHOOSE x \in Range(ms) : x.name = id1,
                            CHOOSE x \in Range(ms) : x.name = id2)]]]

\* lines 20-26: np.inf on the diagonal, similarity_func everywhere else
MentorSimilarityMatrix(ms, f) ==
    [index   |-> Index(ms),
     columns |-> Index(ms),
     at      |-> [id1 \in Range(Index(ms)) |->
                    [id2 \in Range(Index(ms)) |->
                        IF id1 = id2 THEN Inf
                        ELSE ApplyMentorSimilarity(f,
                                CHOOSE x \in Range(ms) : x.name = id1,
                                CHOOSE x \in Range(ms) : x.name = id2)]]]

\* line 29
NClusters(mentor_count, per_group) == mentor_count \div per_group

\* KMedoids.run, line 31: any mapping from the cluster ids 0..k-1 to disjoint,
\* non-empty lists of member indices; sizes need not be equal.  A count of 0
\* is outside its contract: it raises or returns the empty mapping.
ClusterMaps(n, k) ==
    {c \in [0..(n - 1) -> 0..k] : \A h \in 1..k : \E q \in DOMAIN c : c[q] = h}

KMedoidsRun(distance_matrix, k) ==
    IF k <= 0
    THEN {[raised |-> TRUE, clusters |-> <<>>],
          [raised |-> FALSE, clusters |-> <<>>]}
    ELSE {[raised |-> FALSE,
           clusters |-> GroupsOf(c, [g \in 1..k |-> g - 1])]
            : c \in ClusterMaps(Len(distance_matrix), k)}

InitGroup ==
    /\ \E n \in 1..MaxMentors, stride \in 0..2 : mentors = MentorTable(n, stride)
    /\ mentors_per_mentee \in 0..MaxGroupSize
    /\ mentor_similarity_func \in MentorSimilarityFuncs
    /\ mentor_similarity = EmptyMatrix
    /\ n_clusters = 0
    /\ km = NoSolver
    /\ returned_groups = NoGroups
    /\ gpc = "start"
    /\ mentees = <<>>
    /\ mentor_groups = <<>>
    /\ mentees_per_mentor = 0
    /\ similarity_func = "constant"
    /\ similarity_matrix = EmptyMatrix
    /\ assignments = <<>>
    /\ mentees_pool = <<>>
    /\ round = 0
    /\ assignments_by_mentor = <<>>
    /\ assignments_by_mentee = <<>>
    /\ returned = NoViews
    /\ pc = "idle"

ginputs == <<mentors_per_mentee, mentor_similarity_func, avars>>

\* lines 20-26
BuildMentorSimilarity ==
    /\ gpc = "start"
    /\ mentor_similarity' = MentorSimilarityMatrix(mentors, mentor_similarity_func)
    /\ gpc' = "cluster"
    /\ UNCHANGED <<ginputs, n_clusters, km, returned_groups>>

\* lines 29-30: the cluster count (a group size of 0 raises ZeroDivisionError)
\* and the solver object built from the matrix values and the count
MakeSolver ==
    /\ gpc = "cluster"
    /\ IF mentors_per_mentee = 0
       THEN /\ gpc' = "error"
            /\ UNCHANGED <<n_clusters, km>>
       ELSE /\ n_clusters' = NClusters(Len(mentors), mentors_per_mentee)
            /\ km' = [distance_matrix |-> Values(mentor_similarity),
                      n_clusters |-> NClusters(Len(mentors), mentors_per_mentee),
                      ran |-> FALSE,
                      clusters |-> <<>>]
            /\ gpc' = "run"
    /\ UNCHANGED <<ginputs, mentor_similarity, returned_groups>>

\* line 31
RunSolver ==
    /\ gpc = "run"
    /\ \E out \in KMedoidsRun(km.distance_matrix, km.n_clusters) :
          IF out.raised
          THEN /\ km' = [km EXCEPT !.ran = TRUE]
               /\ gpc' = "error"
          ELSE /\ km' = [km EXCEPT !.ran = TRUE, !.clusters = out.clusters]
               /\ gpc' = "return"
    /\ UNCHANGED <<ginputs, mentor_similarity, n_clusters, returned_groups>>

\* line 33
ReturnClusters ==
    /\ gpc = "return"
    /\ returned_groups' = km.clusters
    /\ gpc' = "done"
    /\ UNCHANGED <<ginputs, mentor_similarity, n_clusters, km>>

NextGroup ==
    \/ BuildMentorSimilarity
    \/ MakeSolver
    \/ RunSolver
    \/ ReturnClusters

SpecGroup == InitGroup /\ [][NextGroup]_vars

-----------------------------------------------------------------------------
(* Properties of group_mentors (checked under SpecGroup) *)

\* C7: when floor(mentor_count / group_size) is 0 the solver is never built
\* or run with that count and no group mapping is returned.
C7_ZeroClustersRejected ==
    (mentors_per_mentee > Len(mentors)) => (km = NoSolver /\ gpc # "done")

\* C8: every returned group has exactly group_size members and no mentor is
\* in two groups.
C8_GroupsHaveGroupSize ==
    gpc = "done" =>
        /\ \A g \in Range(returned_groups) : Len(g.members) = mentors_per_mentee
        /\ \A g1, g2 \in Range(returned_groups) :
              g1 # g2 => Range(g1.members) \cap Range(g2.members) = {}

AgreeOnDistinctPairs(f1, f2) ==
    \A a, b \in Range(mentors) :
        a.name # b.name =>
            ApplyMentorSimilarity(f1, a, b) = ApplyMentorSimilarity(f2, a, b)

\* C9: the distance matrix handed to the solver has positive infinity in every
\* diagonal cell and is the matrix of every comparison function that agrees
\* with the given one on all pairs of distinct mentors.
C9_SelfSimilarityIgnored ==
    km # NoSolver =>
        /\ \A i \in 1..Len(mentors) : km.distance_matrix[i][i] = Inf
        /\ \A f2 \in MentorSimilarityFuncs :
              AgreeOnDistinctPairs(mentor_similarity_func, f2) =>
                  km.distance_matrix =
                      Values(MentorSimilarityMatrix(mentors, f2))

C9_Witness ==
    /\ km # NoSolver
    /\ km.ran
    /\ Len(mentors) >= 2
    /\ mentor_similarity_func.self > 0
    /\ \E f2 \in MentorSimilarityFuncs :
          /\ f2.kind # mentor_similarity_func.kind
          /\ f2.self # mentor_similarity_func.self
          /\ AgreeOnDistinctPairs(mentor_similarity_func, f2)

====
